---- MODULE Spec2Model ----
(***************************************************************************)
(* Model of package logger (logger.go): the Logger value, the core emit    *)
(* routine Log, the per-severity policy methods LogInfo, LogDebug,         *)
(* LogWarn, LogError and LogFatal, and the webhook delivery sendWebhook.   *)
(*                                                                         *)
(* Every public method runs synchronously in the caller, so one action is  *)
(* one whole call.  The side effects of a call (callback invocation, line  *)
(* written by log.Printf, HTTP POST, os.Exit) are recorded, in the order   *)
(* the code performs them, in the variable trace.                          *)
(*                                                                         *)
(* Format strings are sequences of tokens: a token is either a verb        *)
(* ("%s", "%v", "%w") or literal text.  ServiceName is a plain label       *)
(* without verbs, so the service prefix spliced in front of the caller's   *)
(* format is one literal token.                                            *)
(***************************************************************************)
EXTENDS Integers, Sequences, FiniteSets

\* ---------------------------------------------------------------- bounds
MaxCalls == 2

\* ----------------------------------------------------- program constants
INFO == "INFO"
ERR == "ERR"
WARN == "WARN"
DEBUG == "DEBUG"

StatusOK == "200 OK"

\* ------------------------------------------------------ input universes
ServiceNames == {"svc"}
ContextNames == {"ctx"}
URLs == {"", "http://hook"}
\* levels a caller may hand to Log: LogLevel is a string type, so a value
\* outside the four constants is possible and takes the default branch
LogLevels == {INFO, ERR, WARN, DEBUG, "TRACE"}
Formats == { <<"boom">>, <<"hello ", "%s">> }
Args == { <<>>, <<"world">> }
\* what http.Post returns: an error (endpoint unreachable) or a response
\* carrying a status
TransportError == "dial tcp: connection refused"
Responses == {StatusOK, "500 Internal Server Error", TransportError}
Clock == {"2025-04-22T10:00:00Z"}

WebhookConfig == [URL : URLs, SendError : BOOLEAN, SendFatal : BOOLEAN, SendWarn : BOOLEAN]

Logger == [ServiceName : ServiceNames, LogContextName : ContextNames,
    DebugEnabled : BOOLEAN, CaptureExceptionFunc : BOOLEAN,
    WebhookConfig : WebhookConfig]

NoCall == [op |-> "none"]

VARIABLES l, call, trace, nCalls, nPosts, nTriggering, exitStatus

vars == <<l, call, trace, nCalls, nPosts, nTriggering, exitStatus>>

\* ------------------------------------------------------------ formatting
ESC == "\\033"

RECURSIVE Extra(_)
Extra(v) ==
    IF Len(v) = 1 THEN "string=" \o Head(v)
    ELSE "string=" \o Head(v) \o ", " \o Extra(Tail(v))

VerbChar(verb) == IF verb = "%s" THEN "s" ELSE IF verb = "%v" THEN "v" ELSE "w"

RECURSIVE Sprintf(_, _)
Sprintf(format, v) ==
    IF format = <<>>
    THEN IF v = <<>> THEN "" ELSE "%!(EXTRA " \o Extra(v) \o ")"
    ELSE IF Head(format) \in {"%s", "%v"}
         THEN IF v = <<>>
              THEN "%!" \o VerbChar(Head(format)) \o "(MISSING)" \o Sprintf(Tail(format), v)
              ELSE Head(v) \o Sprintf(Tail(format), Tail(v))
         ELSE Head(format) \o Sprintf(Tail(format), v)

\* fmt.Errorf formats like Sprintf, with %w printing its operand as %v does;
\* the model keeps the text of the error value
Errorf(format, v) ==
    Sprintf([i \in 1..Len(format) |-> IF format[i] = "%w" THEN "%v" ELSE format[i]], v)

\* ----------------------------------------------------------- side effects
LineEv(logLevel, text) == [kind |-> "line", level |-> logLevel, text |-> text]
CaptureEv(text) == [kind |-> "capture", text |-> text]
PostEv(url, body, resp) == [kind |-> "post", url |-> url, body |-> body, resp |-> resp]
ExitEv(status) == [kind |-> "exit", status |-> status]

\* ------------------------------------------------------------- NewLogger
NewLogger(serviceName, logContextName, debugEnabled, webhookConfig) ==
    [ServiceName |-> serviceName, LogContextName |-> logContextName,
     DebugEnabled |-> debugEnabled, CaptureExceptionFunc |-> FALSE,
     WebhookConfig |-> webhookConfig]

\* ------------------------------------------------------------------- Log
LevelPrefix(logLevel) ==
    CASE logLevel = ERR -> ESC \o "[41m[ERR]" \o ESC \o "[0m "
      [] logLevel = WARN -> ESC \o "[43m[WARN]" \o ESC \o "[0m "
      [] logLevel = DEBUG -> ESC \o "[40m" \o ESC \o "[37m[DEBUG]" \o ESC \o "[0m "
      [] OTHER -> ESC \o "[44m[INFO]" \o ESC \o "[0m "

ServicePrefix(lg) == Sprintf(<<ESC \o "[35m[", "%s", "]" \o ESC \o "[0m ">>, <<lg.ServiceName>>)

\* Log with the DEBUG gate left out
Log_NoDebugGate(lg, logLevel, format, v) ==
    LET prefix == <<ServicePrefix(lg) \o LevelPrefix(logLevel)>> \o format
    IN  <<LineEv(logLevel, Sprintf(prefix, v))>>

Log(lg, logLevel, format, v) ==
    IF logLevel = DEBUG /\ ~lg.DebugEnabled
    THEN <<>>
    ELSE LET prefix == <<ServicePrefix(lg) \o LevelPrefix(logLevel)>> \o format
         IN  <<LineEv(logLevel, Sprintf(prefix, v))>>

\* ----------------------------------------------------------- sendWebhook
\* json.Marshal of a struct of five string fields cannot fail
MarshalFails(payload) == FALSE

\* the payload built by sendWebhook, with serviceName and logContextName
\* exchanged
Payload_Swapped(lg, logLevel, format, v, now) ==
    [serviceName |-> lg.LogContextName,
     logContextName |-> lg.ServiceName,
     message |-> Sprintf(format, v),
     level |-> logLevel,
     timestamp |-> now]

Payload(lg, logLevel, format, v, now) ==
    [serviceName |-> lg.ServiceName,
     logContextName |-> lg.LogContextName,
     message |-> Sprintf(format, v),
     level |-> logLevel,
     timestamp |-> now]

\* the POST and the handling of its result, with a transport error
\* escalated to a process exit (log.Fatalf in place of l.Log)
Deliver_FatalOnError(lg, payload, resp) ==
    <<PostEv(lg.WebhookConfig.URL, payload, resp)>> \o
    (IF resp = TransportError
     THEN Log(lg, ERR, <<"Failed to send webhook: ", "%v">>, <<resp>>) \o <<ExitEv(1)>>
     ELSE IF resp # StatusOK
          THEN Log(lg, ERR, <<"Webhook responded with status: ", "%s">>, <<resp>>)
          ELSE <<>>)

\* the POST and the handling of its result, with one retry after a
\* transport error
Deliver_Retry(lg, payload, resp) ==
    <<PostEv(lg.WebhookConfig.URL, payload, resp)>> \o
    (IF resp = TransportError
     THEN <<PostEv(lg.WebhookConfig.URL, payload, resp)>> \o
          Log(lg, ERR, <<"Failed to send webhook: ", "%v">>, <<resp>>)
     ELSE IF resp # StatusOK
          THEN Log(lg, ERR, <<"Webhook responded with status: ", "%s">>, <<resp>>)
          ELSE <<>>)

\* the POST and the handling of its result, with the status check left out
Deliver_NoStatusCheck(lg, payload, resp) ==
    <<PostEv(lg.WebhookConfig.URL, payload, resp)>> \o
    (IF resp = TransportError
     THEN Log(lg, ERR, <<"Failed to send webhook: ", "%v">>, <<resp>>)
     ELSE <<>>)

\* http.Post and what follows it: resp is either the transport error or the
\* status of the response
Deliver(lg, payload, resp) ==
    <<PostEv(lg.WebhookConfig.URL, payload, resp)>> \o
    (IF resp = TransportError
     THEN Log(lg, ERR, <<"Failed to send webhook: ", "%v">>, <<resp>>)
     ELSE IF resp # StatusOK
          THEN Log(lg, ERR, <<"Webhook responded with status: ", "%s">>, <<resp>>)
          ELSE <<>>)

\* sendWebhook without the early return on an empty URL
sendWebhook_NoURLCheck(lg, logLevel, format, v, now, resp) ==
    LET payload == Payload(lg, logLevel, format, v, now)
    IN  IF MarshalFails(payload)
        THEN Log(lg, ERR, <<"Failed to marshal webhook payload: ", "%v">>, <<"json: error">>)
        ELSE Deliver(lg, payload, resp)

sendWebhook(lg, logLevel, format, v, now, resp) ==
    IF lg.WebhookConfig.URL = ""
    THEN <<>>
    ELSE LET payload == Payload(lg, logLevel, format, v, now)
         IN  IF MarshalFails(payload)
             THEN Log(lg, ERR, <<"Failed to marshal webhook payload: ", "%v">>, <<"json: error">>)
             ELSE Deliver(lg, payload, resp)

\* -------------------------------------------------------- policy methods
LogInfo(lg, format, v) == Log(lg, INFO, format, v)

LogDebug(lg, format, v) == Log(lg, DEBUG, format, v)

\* LogWarn gated by the SendError flag
LogWarn_WrongFlag(lg, format, v, now, resp) ==
    Log(lg, WARN, format, v) \o
    (IF lg.WebhookConfig.SendError THEN sendWebhook(lg, WARN, format, v, now, resp) ELSE <<>>)

LogWarn(lg, format, v, now, resp) ==
    Log(lg, WARN, format, v) \o
    (IF lg.WebhookConfig.SendWarn THEN sendWebhook(lg, WARN, format, v, now, resp) ELSE <<>>)

\* LogError emitting its line before it invokes the callback
LogError_EmitFirst(lg, format, v, now, resp) ==
    LET err == Errorf(format, v)
    IN  Log(lg, ERR, format, v) \o
        (IF lg.CaptureExceptionFunc
         THEN <<CaptureEv(Errorf(<<"{", "%s", "} => ", "%w">>, <<lg.LogContextName, err>>))>>
         ELSE <<>>) \o
        (IF lg.WebhookConfig.SendError THEN sendWebhook(lg, ERR, format, v, now, resp) ELSE <<>>)

\* LogError handing the unwrapped error to the callback
LogError_NoWrap(lg, format, v, now, resp) ==
    LET err == Errorf(format, v)
    IN  (IF lg.CaptureExceptionFunc THEN <<CaptureEv(err)>> ELSE <<>>) \o
        Log(lg, ERR, format, v) \o
        (IF lg.WebhookConfig.SendError THEN sendWebhook(lg, ERR, format, v, now, resp) ELSE <<>>)

LogError(lg, format, v, now, resp) ==
    LET err == Errorf(format, v)
    IN  (IF lg.CaptureExceptionFunc
         THEN <<CaptureEv(Errorf(<<"{", "%s", "} => ", "%w">>, <<lg.LogContextName, err>>))>>
         ELSE <<>>) \o
        Log(lg, ERR, format, v) \o
        (IF lg.WebhookConfig.SendError THEN sendWebhook(lg, ERR, format, v, now, resp) ELSE <<>>)

\* LogFatal exiting before the webhook: the delivery is never reached
LogFatal_ExitEarly(lg, format, v, now, resp) ==
    LET err == Errorf(format, v)
    IN  (IF lg.CaptureExceptionFunc
         THEN <<CaptureEv(Errorf(<<"{", "%s", "} => ", "%w">>, <<lg.LogContextName, err>>))>>
         ELSE <<>>) \o
        Log(lg, ERR, format, v) \o
        <<ExitEv(1)>>

LogFatal(lg, format, v, now, resp) ==
    LET err == Errorf(format, v)
    IN  (IF lg.CaptureExceptionFunc
         THEN <<CaptureEv(Errorf(<<"{", "%s", "} => ", "%w">>, <<lg.LogContextName, err>>))>>
         ELSE <<>>) \o
        Log(lg, ERR, format, v) \o
        (IF lg.WebhookConfig.SendFatal THEN sendWebhook(lg, ERR, format, v, now, resp) ELSE <<>>) \o
        <<ExitEv(1)>>

\* ------------------------------------------------------------ observation
Count(ev, kind) == Cardinality({i \in 1..Len(ev) : ev[i].kind = kind})

Index(ev, kind) == {i \in 1..Len(ev) : ev[i].kind = kind}

Running == exitStatus = -1

\* one whole public call: the effects ev happen in order; os.Exit ends the
\* process with the status of the exit effect
Do(op, logLevel, format, v, ev) ==
    /\ call' = [op |-> op, level |-> logLevel, format |-> format, v |-> v,
                l |-> l]
    /\ trace' = ev
    /\ nCalls' = nCalls + 1
    /\ nPosts' = nPosts + Count(ev, "post")
    /\ nTriggering' = nTriggering + (IF op \in {"LogWarn", "LogError", "LogFatal"} THEN 1 ELSE 0)
    /\ exitStatus' = IF Index(ev, "exit") # {}
                     THEN ev[CHOOSE i \in Index(ev, "exit") : TRUE].status
                     ELSE exitStatus
    /\ UNCHANGED l

CanCall == Running /\ nCalls < MaxCalls

\* ---------------------------------------------------------------- actions
Init ==
    /\ l \in {NewLogger(s, c, d, w) : s \in ServiceNames, c \in ContextNames,
                                      d \in BOOLEAN, w \in WebhookConfig}
    /\ call = NoCall
    /\ trace = <<>>
    /\ nCalls = 0
    /\ nPosts = 0
    /\ nTriggering = 0
    /\ exitStatus = -1

CallLog ==
    /\ CanCall
    /\ \E logLevel \in LogLevels, format \in Formats, v \in Args :
          Do("Log", logLevel, format, v, Log(l, logLevel, format, v))

CallLogInfo ==
    /\ CanCall
    /\ \E format \in Formats, v \in Args :
          Do("LogInfo", INFO, format, v, LogInfo(l, format, v))

CallLogDebug ==
    /\ CanCall
    /\ \E format \in Formats, v \in Args :
          Do("LogDebug", DEBUG, format, v, LogDebug(l, format, v))

CallLogWarn ==
    /\ CanCall
    /\ \E format \in Formats, v \in Args, now \in Clock, resp \in Responses :
          Do("LogWarn", WARN, format, v, LogWarn(l, format, v, now, resp))

CallLogError ==
    /\ CanCall
    /\ \E format \in Formats, v \in Args, now \in Clock, resp \in Responses :
          Do("LogError", ERR, format, v, LogError(l, format, v, now, resp))

CallLogFatal ==
    /\ CanCall
    /\ \E format \in Formats, v \in Args, now \in Clock, resp \in Responses :
          Do("LogFatal", ERR, format, v, LogFatal(l, format, v, now, resp))

\* the owner reassigns exported fields between calls (a reassignment after
\* the last call of a run has no observable effect and is not explored)
SetDebugEnabled ==
    /\ CanCall
    /\ \E b \in BOOLEAN : l' = [l EXCEPT !.DebugEnabled = b]
    /\ UNCHANGED <<call, trace, nCalls, nPosts, nTriggering, exitStatus>>

SetCaptureExceptionFunc ==
    /\ CanCall
    /\ \E registered \in BOOLEAN : l' = [l EXCEPT !.CaptureExceptionFunc = registered]
    /\ UNCHANGED <<call, trace, nCalls, nPosts, nTriggering, exitStatus>>

SetWebhookURL ==
    /\ CanCall
    /\ \E url \in URLs : l' = [l EXCEPT !.WebhookConfig.URL = url]
    /\ UNCHANGED <<call, trace, nCalls, nPosts, nTriggering, exitStatus>>

Next ==
    \/ CallLog
    \/ CallLogInfo
    \/ CallLogDebug
    \/ CallLogWarn
    \/ CallLogError
    \/ CallLogFatal
    \/ SetDebugEnabled
    \/ SetCaptureExceptionFunc
    \/ SetWebhookURL

Spec == Init /\ [][Next]_vars

TypeOK ==
    /\ l \in Logger
    /\ nCalls \in 0..MaxCalls
    /\ exitStatus \in {-1, 1}

\* ================================================================ claims
Called == call.op # "none"

Posts == Index(trace, "post")
Lines == Index(trace, "line")
Captures == Index(trace, "capture")
Exits == Index(trace, "exit")

\* the console line a call is expected to write for its own message
MessageLine ==
    LineEv(call.level,
           ServicePrefix(call.l) \o LevelPrefix(call.level) \o Sprintf(call.format, call.v))

MessageLineAt == {i \in Lines : trace[i] = MessageLine}

\* the call's own send flag
OwnFlag ==
    CASE call.op = "LogWarn" -> call.l.WebhookConfig.SendWarn
      [] call.op = "LogError" -> call.l.WebhookConfig.SendError
      [] call.op = "LogFatal" -> call.l.WebhookConfig.SendFatal
      [] OTHER -> FALSE

Triggered == OwnFlag /\ call.l.WebhookConfig.URL # ""

\* C1: a DEBUG-severity call (LogDebug, or Log with level DEBUG) writes no
\* line when DebugEnabled is false at the time of the call and exactly one
\* line when it is true; a call of any other severity writes its line
\* whatever the value of DebugEnabled.
C1_DebugGate ==
    Called =>
        /\ (call.op \in {"Log", "LogDebug"} /\ call.level = DEBUG) =>
               /\ ~call.l.DebugEnabled => Cardinality(Lines) = 0
               /\ call.l.DebugEnabled => Cardinality(Lines) = 1 /\ trace[1] = MessageLine
        /\ call.level # DEBUG => MessageLineAt # {}

\* C1 witness: after DebugEnabled was reassigned, a debug call was dropped
\* while the flag was false
C1_Witness ==
    /\ call.op = "LogDebug"
    /\ ~call.l.DebugEnabled
    /\ trace = <<>>
    /\ nCalls = 2

\* C2: while WebhookConfig.URL is empty no call issues an HTTP POST, whatever
\* the method called and whatever the three send flags: a step taken with
\* an empty URL leaves the number of POSTs unchanged.
C2_NoPostWhileURLEmpty ==
    [][l.WebhookConfig.URL = "" => nPosts' = nPosts]_vars

\* C2 witness: LogError ran with SendError true and an empty URL, and posted
\* nothing
C2_Witness ==
    /\ call.op = "LogError"
    /\ call.l.WebhookConfig.URL = ""
    /\ call.l.WebhookConfig.SendError
    /\ call.l.WebhookConfig.SendWarn
    /\ call.l.WebhookConfig.SendFatal
    /\ Posts = {}
    /\ nPosts = 0

\* C3: a POST happens during a call only if the call is LogWarn, LogError or
\* LogFatal, its own send flag is true and the URL is non-empty; LogInfo,
\* LogDebug and Log never post.
C3_PostOnlyOnOwnFlag ==
    Called => (Posts # {} =>
                  /\ call.op \in {"LogWarn", "LogError", "LogFatal"}
                  /\ OwnFlag
                  /\ call.l.WebhookConfig.URL # "")

\* C3 witness: LogWarn with SendWarn false posted nothing although the URL
\* is set and the two other flags are true
C3_Witness ==
    /\ call.op = "LogWarn"
    /\ ~call.l.WebhookConfig.SendWarn
    /\ call.l.WebhookConfig.SendError
    /\ call.l.WebhookConfig.SendFatal
    /\ call.l.WebhookConfig.URL # ""
    /\ Posts = {}

\* C4: within one call the callback invocation precedes the console line of
\* the message, which precedes the POST: every POST has the message line
\* before it, every line of a LogError/LogFatal call with a registered
\* callback has the callback invocation before it, and a triggered
\* LogError/LogFatal with a callback performs all three.
C4_Ordering ==
    Called =>
        /\ \A p \in Posts : \E j \in MessageLineAt : j < p
        /\ \A c \in Captures : \A j \in Lines \cup Posts : c < j
        /\ (call.op \in {"LogError", "LogFatal"} /\ call.l.CaptureExceptionFunc /\ Triggered) =>
               /\ Captures # {}
               /\ MessageLineAt # {}
               /\ Posts # {}
        /\ (call.op = "LogWarn" /\ Triggered) => MessageLineAt # {} /\ Posts # {}

\* C4 witness: a LogError call with a callback and a triggered webhook
C4_Witness ==
    /\ call.op = "LogError"
    /\ call.l.CaptureExceptionFunc
    /\ Triggered
    /\ Len(trace) >= 3
    /\ trace[1].kind = "capture"
    /\ trace[2].kind = "line"
    /\ trace[3].kind = "post"

\* C5: every LogFatal call ends the process with exit status 1, as the last
\* effect of the call: the callback, the message line, the POST (when
\* triggered) and the failure report of the POST all come before the exit.
C5_FatalExitsLast ==
    (Called /\ call.op = "LogFatal") =>
        /\ exitStatus = 1
        /\ exitStatus # 0
        /\ Exits = {Len(trace)}
        /\ MessageLineAt # {}
        /\ call.l.CaptureExceptionFunc => Captures # {}
        /\ Triggered =>
               /\ Posts # {}
               /\ \A p \in Posts : trace[p].resp # StatusOK =>
                      \E j \in Lines : p < j /\ trace[j].level = ERR

\* C5 witness: LogFatal with a triggered webhook that failed; the failure
\* report was written and the process then exited
C5_Witness ==
    /\ call.op = "LogFatal"
    /\ Triggered
    /\ call.l.CaptureExceptionFunc
    /\ exitStatus = 1
    /\ Len(trace) = 5
    /\ trace[3].kind = "post"
    /\ trace[3].resp = TransportError
    /\ trace[4].kind = "line"
    /\ trace[5].kind = "exit"

\* C6: LogError with a registered callback invokes it exactly once, as the
\* first effect of the call, with the error text
\* "{<LogContextName>} => <formatted message>", whatever the other fields
\* and the webhook outcome; with no callback it invokes nothing and still
\* writes its line.
C6_CaptureOnce ==
    (Called /\ call.op = "LogError") =>
        /\ call.l.CaptureExceptionFunc =>
               /\ Cardinality(Captures) = 1
               /\ trace[1] = CaptureEv("{" \o call.l.LogContextName \o "} => " \o
                                       Sprintf(call.format, call.v))
        /\ ~call.l.CaptureExceptionFunc => Captures = {} /\ MessageLineAt # {}

\* C6 witness: LogError("hello %s", "world") with a callback and a failed
\* webhook
C6_Witness ==
    /\ call.op = "LogError"
    /\ call.l.CaptureExceptionFunc
    /\ call.format = <<"hello ", "%s">>
    /\ call.v = <<"world">>
    /\ trace[1] = CaptureEv("{ctx} => hello world")
    /\ \E p \in Posts : trace[p].resp # StatusOK

\* C7: LogError with SendError true whose POST fails at transport level
\* returns to the caller (the process keeps running) and has written the
\* console line of the message at ERR level.
C7_TransportFailureIsolated ==
    (Called /\ call.op = "LogError" /\ \E p \in Posts : trace[p].resp = TransportError) =>
        /\ exitStatus = -1
        /\ Exits = {}
        /\ MessageLineAt # {}
        /\ MessageLine.level = ERR

\* C7 witness: LogError against an unreachable endpoint
C7_Witness ==
    /\ call.op = "LogError"
    /\ call.l.WebhookConfig.SendError
    /\ \E p \in Posts : trace[p].resp = TransportError
    /\ exitStatus = -1

\* C8: a call issues at most one POST whatever its outcome; after the POST
\* only the failure report and, for LogFatal, the exit follow (no further
\* POST, no callback invocation); the number of POSTs never exceeds the
\* number of LogWarn/LogError/LogFatal calls.
C8_SingleAttempt ==
    /\ nPosts <= nTriggering
    /\ Called =>
           /\ Cardinality(Posts) <= 1
           /\ Cardinality(Captures) <= 1
           /\ \A p \in Posts : \A j \in (p + 1)..Len(trace) :
                  trace[j].kind \in {"line", "exit"}
           /\ \A p \in Posts :
                  Cardinality({j \in Lines : j > p}) <= 1

\* C8 witness: two triggering calls, both with SendError true and a failed
\* POST, made two POSTs in all
C8_Witness ==
    /\ nTriggering = 2
    /\ nPosts = 2
    /\ call.op = "LogError"
    /\ call.l.CaptureExceptionFunc
    /\ \E p \in Posts : trace[p].resp = TransportError

C10_LineCount ==
    Called =>
        /\ call.op = "LogInfo" => trace = <<MessageLine>>
        /\ call.op \in {"LogWarn", "LogError", "LogFatal"} =>
               LET failed == \E p \in Posts : trace[p].resp # StatusOK
               IN  /\ Cardinality(MessageLineAt) = 1
                   /\ Cardinality(Lines) = (IF failed THEN 2 ELSE 1)
                   /\ \A j \in Lines \ MessageLineAt :
                          /\ trace[j].level = ERR
                          /\ \A m \in MessageLineAt : m < j
                          /\ \E p \in Posts : p < j

\* C10 witness: LogWarn whose webhook answered 500 wrote the WARN line and
\* then one ERR line
C10_Witness ==
    /\ call.op = "LogWarn"
    /\ Cardinality(Lines) = 2
    /\ trace[1].level = WARN
    /\ trace[3].level = ERR
    /\ trace[2].kind = "post"
    /\ trace[2].resp = "500 Internal Server Error"
====
